---- MODULE Spec2Model ----
(***************************************************************************)
(* A model of ifc-ts: the label lattice, closure-based labeled values, the *)
(* phantom-typed LIO monad (ret / unLabel / bind / unsafe_runLIO), the     *)
(* labeled I/O boundary (input / output) and the asynchronous extension    *)
(* (parallelInputAsync / sequenceAsync).                                   *)
(*                                                                         *)
(* Two layers are modelled.  The static layer is the generic signatures of *)
(* the library (the `extends` constraints and the declared result types):  *)
(* a program whose composition violates a constraint is rejected when it   *)
(* is constructed.  The dynamic layer is the deferred `run` thunks, which  *)
(* execute as a stack machine whose steps are the await points.            *)
(***************************************************************************)
EXTENDS Integers, Sequences, FiniteSets, TLC

\* ---------------------------------------------------------------- bounds
NumPrincipals == 2
MaxSources == 3
MaxOps == 3

\* --------------------------------------------------------------- lattice
PrincipalNames == <<"Alice", "Bob", "Carol", "Dave">>
Principals == {PrincipalNames[i] : i \in 1..NumPrincipals}
Level == SUBSET Principals
Bot == {}
Top == Principals
\* (faulty variant: strict inclusion)
canFlowToStrict(a, b) == a \subseteq b /\ a # b
canFlowTo(a, b) == a \subseteq b
\* (faulty variant: the left argument)
LUBLeft(a, b) == a
LUB(a, b) == a \cup b
GLB(a, b) == a \cap b

\* ---------------------------------------------------------------- values
\* Raw JavaScript values.
Num(n) == [t |-> "number", n |-> n]
Undefined == [t |-> "undefined", n |-> 0]
NaN == [t |-> "NaN", n |-> 0]
Null == [t |-> "null", n |-> 0]
Bool(b) == [t |-> "boolean", n |-> IF b THEN 1 ELSE 0]
Arr(items) == [t |-> "array", items |-> items]

\* label(l, v): an object closing over l and v; its only two methods are
\* getLabel and unsafeGetValue.  It is not an array and not iterable.
label(l, v) == [t |-> "Labeled", l |-> l, v |-> v]
getLabel(lv) == lv.l
unsafeGetValue(lv) == lv.v
\* (faulty variant: the label is dropped)
labelOfBot(lv) == {}
labelOf(lv) == getLabel(lv)
unsafe_valueOf(lv) == unsafeGetValue(lv)
\* upLabel<L extends L_, L_, V>(l_)(lv) = label(l_, lv.unsafeGetValue())
upLabelAccepts(l_, lv) == canFlowTo(getLabel(lv), l_)
\* (faulty variant: the labeled value is returned as it is)
upLabelSame(l_, lv) == lv
upLabel(l_, lv) == label(l_, unsafeGetValue(lv))

\* `a + b` on raw values: numeric addition, NaN when an operand is no number.
Plus(a, b) == IF a.t = "number" /\ b.t = "number" THEN Num(a.n + b.n) ELSE NaN
\* ToBoolean on raw values.
Truthy(a) == a.t \in {"number", "boolean"} /\ a.n # 0

\* The two JavaScript outputs a build of `const [a, b] = x` produces.
\* "native": the pattern is kept and iterates x, so a non-iterable x throws a
\* TypeError.  "downlevel": the pattern is emitted as x[0], x[1], which are
\* undefined on an object that has no such properties.
Builds == {"native", "downlevel"}
Destructure(x, bld) ==
    IF x.t = "array"
    THEN [ok |-> TRUE,
          a |-> IF Len(x.items) >= 1 THEN x.items[1] ELSE Undefined,
          b |-> IF Len(x.items) >= 2 THEN x.items[2] ELSE Undefined]
    ELSE IF bld = "native"
         THEN [ok |-> FALSE, a |-> Undefined, b |-> Undefined]
         ELSE [ok |-> TRUE, a |-> Undefined, b |-> Undefined]

\* ------------------------------------------------------ sources and sinks
src(l, id) == [id |-> id, l |-> l]
snk(l, id) == [id |-> id, l |-> l]

\* What a reader settles with: a raw value, or a failure.
Failure == [t |-> "failure", n |-> 0]
ReadValues == {Num(10), Num(42)}
Outcomes == ReadValues \cup {Failure}
SrcIds == 1..MaxSources

\* ------------------------------------------------- programs (source terms)
\* Expressions a continuation evaluates when it is called.
EVar(x) == [e |-> "var", x |-> x]
ELit(lv) == [e |-> "lit", lv |-> lv]
\* const [_, v1] = x; const [_, v2] = y; label(l, v1 + v2)
ESum(l, x, y) == [e |-> "sum", l |-> l, x |-> x, y |-> y]
\* const [_, c] = x; label(l, c ? a : b)
\* const [_, v] = x; label(l, v)
ERelabel(l, x) == [e |-> "relabel", l |-> l, x |-> x]
ECond(l, x, a, b) == [e |-> "cond", l |-> l, x |-> x, a |-> a, b |-> b]

TRet(v) == [op |-> "ret", v |-> v]
TUnLabel(e) == [op |-> "unLabel", e |-> e]
TMk(pc, l, lv) == [op |-> "mkLIO", pc |-> pc, l |-> l, lv |-> lv]
TInput(s) == [op |-> "input", s |-> s]
TOutput(k, e) == [op |-> "output", k |-> k, e |-> e]
\* bind(m, (x: Labeled<lx, V>) => body)
TBind(m, x, lx, body) == [op |-> "bind", m |-> m, x |-> x, lx |-> lx, body |-> body]
TCondOut(k, c, e) == [op |-> "conditionalOutputAsync", k |-> k, c |-> c, e |-> e]
TToLabeled(m) == [op |-> "toLabeled", m |-> m]
TSeq(ms) == [op |-> "sequenceAsync", ms |-> ms]
TUpData(l_, m) == [op |-> "upData", l |-> l_, m |-> m]
TDownPC(lpc_, m) == [op |-> "downPC", l |-> lpc_, m |-> m]
TPar(ss) == [op |-> "parallelInputAsync", ss |-> ss]

\* ------------------------------------------------------------ static layer
\* Value types: Labeled<l, _> or anything else.
LabeledT(l) == [k |-> "Labeled", l |-> l]
OtherT == [k |-> "other", l |-> {}]
\* LIO<pc, l, v>, with ok = the construction is accepted.
LIOT(ok, pc, l, v) == [ok |-> ok, pc |-> pc, l |-> l, v |-> v]

ExprType(e, tenv) ==
    CASE e.e = "var" -> tenv[e.x]
      [] e.e = "lit" -> LabeledT(getLabel(e.lv))
      [] e.e = "sum" -> LabeledT(e.l)
      [] e.e = "cond" -> LabeledT(e.l)
      [] e.e = "relabel" -> LabeledT(e.l)

retType == LIOT(TRUE, Top, Bot, OtherT)
\* ret<V>(v: V): LIO<Top, Bot, V>, for v a labeled value
retLabeledType(lv) == LIOT(TRUE, Top, Bot, LabeledT(getLabel(lv)))
\* (faulty variant: LIO<Top, L, V>, the rule of the tuple draft)
unLabelTypeTuple(lvT) == LIOT(lvT.k = "Labeled", Top, lvT.l, OtherT)
unLabelType(lvT) == LIOT(lvT.k = "Labeled", lvT.l, Bot, lvT)
mkLIOType(pc, l, lvT) == LIOT(TRUE, pc, l, lvT)
inputType(s) == LIOT(TRUE, Top, Bot, LabeledT(s.l))

\* output<Lsink, Ldata extends Lsink, O>(snk)(data: Labeled<Ldata, O>)
\*   : LIO<Ldata, Bot, null>
\* (faulty variant: the constraint Ldata extends Lsink dropped)
outputNoCheck(k, dataT) == LIOT(dataT.k = "Labeled", dataT.l, Bot, OtherT)
outputType(k, dataT) ==
    LIOT(dataT.k = "Labeled" /\ canFlowTo(dataT.l, k.l), dataT.l, Bot, OtherT)

\* bind<Lpc, L extends Rpc, V, Rpc, R, W>(m: LIO<Lpc, L, Labeled<L, V>>,
\*   f: (_: Labeled<L, V>) => LIO<Rpc, R, W>): LIO<GLB<Lpc, Rpc>, LUB<L, R>, W>
\* L is the least level m can be given: its data label joined with the label
\* of the value it produces.
\* (faulty variant: m: LIO<Lpc, L, V>, the value's label not tied to L)
bindLDataOnly(mT) == mT.l
bindL(mT) == LUB(mT.l, mT.v.l)
\* (faulty variant: the constraint L extends Rpc dropped)
bindNoCheck(mT, lx, fT) ==
    LIOT(mT.ok /\ fT.ok /\ mT.v.k = "Labeled" /\ canFlowTo(bindL(mT), lx),
         GLB(mT.pc, fT.pc), LUB(bindL(mT), fT.l), fT.v)
\* (faulty variant: result typed LIO<Lpc, R, W>)
bindWrongLabels(mT, lx, fT) ==
    LIOT(mT.ok /\ fT.ok /\ mT.v.k = "Labeled" /\ canFlowTo(bindL(mT), lx)
           /\ canFlowTo(bindL(mT), fT.pc),
         mT.pc, fT.l, fT.v)
\* (faulty variant: result typed LIO<Lpc, LUB<L, R>, W>, the pc of m alone)
bindPcOfM(mT, lx, fT) ==
    LIOT(mT.ok /\ fT.ok /\ mT.v.k = "Labeled" /\ canFlowTo(bindL(mT), lx)
           /\ canFlowTo(bindL(mT), fT.pc),
         mT.pc, LUB(bindL(mT), fT.l), fT.v)
bindType(mT, lx, fT) ==
    LIOT(mT.ok /\ fT.ok /\ mT.v.k = "Labeled" /\ canFlowTo(bindL(mT), lx)
           /\ canFlowTo(bindL(mT), fT.pc),
         GLB(mT.pc, fT.pc), LUB(bindL(mT), fT.l), fT.v)

\* conditionalOutputAsync<Lsink, Lcond extends Lsink, Ldata extends Lsink, O>
\*   (sink, condition)(data): AsyncLIO<Ldata, Bot, null>
\* (faulty variant: the constraint Lcond extends Lsink dropped)
conditionalOutputAsyncNoCond(k, condT, dataT) ==
    LIOT(condT.k = "Labeled" /\ dataT.k = "Labeled" /\ canFlowTo(dataT.l, k.l),
         dataT.l, Bot, OtherT)
conditionalOutputAsyncType(k, condT, dataT) ==
    LIOT(condT.k = "Labeled" /\ dataT.k = "Labeled"
           /\ canFlowTo(condT.l, k.l) /\ canFlowTo(dataT.l, k.l),
         dataT.l, Bot, OtherT)
\* toLabeled<PC, L, V>(m: LIO<PC, L, Labeled<L, V>>)
\*   : LIO<PC, Bot, Labeled<L, Labeled<L, V>>>
toLabeledType(mT) == LIOT(mT.ok /\ mT.v.k = "Labeled", mT.pc, Bot, LabeledT(bindL(mT)))

\* sequenceAsync<Lpc, L, V>(ms: AsyncLIO<Lpc, L, V>[]): AsyncLIO<Lpc, L, V[]>
sequenceAsyncType(mTs) ==
    LIOT(\A i \in DOMAIN mTs : mTs[i].ok /\ mTs[i].pc = mTs[1].pc /\ mTs[i].l = mTs[1].l,
         IF Len(mTs) = 0 THEN Top ELSE mTs[1].pc,
         IF Len(mTs) = 0 THEN Bot ELSE mTs[1].l,
         OtherT)
\* parallelInputAsync<L, I>(sources: AsyncSrc<L, I>[])
\*   : AsyncLIO<Top, Bot, Labeled<L, I>[]>
parallelInputAsyncType(ss) ==
    LIOT(\A i \in DOMAIN ss : ss[i].l = ss[1].l, Top, Bot, OtherT)

\* upData<Lpc, L extends L_, L_, V>(l_, m: LIO<Lpc, L, V>): LIO<Lpc, L_, V>
upDataType(l_, mT) == LIOT(mT.ok /\ canFlowTo(mT.l, l_), mT.pc, l_, mT.v)
\* downPC<Lpc_ extends Lpc, Lpc, L, V>(lpc_, m: LIO<Lpc, L, V>): LIO<Lpc_, L, V>
downPCType(lpc_, mT) == LIOT(mT.ok /\ canFlowTo(lpc_, mT.pc), lpc_, mT.l, mT.v)

RECURSIVE TypeOf(_, _)
TypeOf(t, tenv) ==
    CASE t.op = "ret" -> IF t.v.t = "Labeled" THEN retLabeledType(t.v) ELSE retType
      [] t.op = "unLabel" -> unLabelType(ExprType(t.e, tenv))
      [] t.op = "mkLIO" -> mkLIOType(t.pc, t.l, LabeledT(getLabel(t.lv)))
      [] t.op = "input" -> inputType(t.s)
      [] t.op = "output" -> outputType(t.k, ExprType(t.e, tenv))
      [] t.op = "bind" ->
           bindType(TypeOf(t.m, tenv), t.lx,
                    TypeOf(t.body, (t.x :> LabeledT(t.lx)) @@ tenv))
      [] t.op = "conditionalOutputAsync" ->
           conditionalOutputAsyncType(t.k, ExprType(t.c, tenv), ExprType(t.e, tenv))
      [] t.op = "toLabeled" -> toLabeledType(TypeOf(t.m, tenv))
      [] t.op = "upData" -> upDataType(t.l, TypeOf(t.m, tenv))
      [] t.op = "downPC" -> downPCType(t.l, TypeOf(t.m, tenv))
      [] t.op = "sequenceAsync" ->
           sequenceAsyncType([i \in DOMAIN t.ms |-> TypeOf(t.ms[i], tenv)])
      [] t.op = "parallelInputAsync" -> parallelInputAsyncType(t.ss)

NoEnv == <<>>

\* ----------------------------------------------------------- dynamic layer
\* What evaluating an expression of a continuation's body gives under build
\* bld: a value, or a thrown TypeError.
Eval(e, env, bld) ==
    CASE e.e = "var" -> [ok |-> TRUE, v |-> env[e.x]]
      [] e.e = "lit" -> [ok |-> TRUE, v |-> e.lv]
      [] e.e = "sum" ->
           LET d1 == Destructure(env[e.x], bld)
               d2 == Destructure(env[e.y], bld)
           IN  [ok |-> d1.ok /\ d2.ok, v |-> label(e.l, Plus(d1.b, d2.b))]
      [] e.e = "cond" ->
           LET d == Destructure(env[e.x], bld)
           IN  [ok |-> d.ok, v |-> label(e.l, IF Truthy(d.b) THEN e.a ELSE e.b)]
      [] e.e = "relabel" ->
           LET d == Destructure(env[e.x], bld)
           IN  [ok |-> d.ok, v |-> label(e.l, d.b)]

\* The computation objects.  Labels are phantom: `_lpc` and `_label` are
\* undefined at run time, so a computation is its `run` thunk alone.
mkLIO(v) == [op |-> "mkLIO", v |-> v]
\* (faulty variant of ret: the value is dropped)
retUndefined(v) == [op |-> "ret", v |-> Undefined]
ret(v) == [op |-> "ret", v |-> v]
unLabel(lv) == [op |-> "unLabel", v |-> lv]
input(s) == [op |-> "input", s |-> s]
output(k, data) == [op |-> "output", k |-> k, data |-> data]
bind(m, f) == [op |-> "bind", m |-> m, f |-> f]
conditionalOutputAsync(k, condition, data) ==
    [op |-> "conditionalOutputAsync", k |-> k, condition |-> condition, data |-> data]
toLabeled(m) == [op |-> "toLabeled", m |-> m]
sequenceAsync(ms) == [op |-> "sequenceAsync", ms |-> ms]
parallelInputAsync(ss) == [op |-> "parallelInputAsync", ss |-> ss]
\* return m as unknown as LIO<..>: the same object
\* (faulty variant: a new computation that holds m as its value, never run)
upDataRet(l_, m) == [op |-> "ret", v |-> m]
upData(l_, m) == m
downPC(lpc_, m) == m

\* The reader and writer invocations that calling input(src) and
\* output(snk)(data) performs before it returns: none, both only wrap their
\* thunk with mkLIO.
\* (faulty variant: the reader is invoked by the call itself)
inputCallEager(s) == <<[e |-> "read", id |-> s.id, v |-> Null]>>
inputCall(s) == <<>>
outputCall(k, data) == <<>>

RECURSIVE Flatten(_)
Flatten(ss) == IF ss = <<>> THEN <<>> ELSE Head(ss) \o Flatten(Tail(ss))

\* Constructing the computation a source term denotes, in environment env:
\* the arguments are evaluated, nothing is run.  evs: the reader and writer
\* invocations performed while constructing.
RECURSIVE Build(_, _, _)
Build(t, env, bld) ==
    CASE t.op = "ret" -> [ok |-> TRUE, c |-> ret(t.v), evs |-> <<>>]
      [] t.op = "unLabel" ->
           LET a == Eval(t.e, env, bld) IN [ok |-> a.ok, c |-> unLabel(a.v), evs |-> <<>>]
      [] t.op = "mkLIO" -> [ok |-> TRUE, c |-> mkLIO(t.lv), evs |-> <<>>]
      [] t.op = "input" -> [ok |-> TRUE, c |-> input(t.s), evs |-> inputCall(t.s)]
      [] t.op = "output" ->
           LET a == Eval(t.e, env, bld)
           IN  [ok |-> a.ok, c |-> output(t.k, a.v),
                evs |-> IF a.ok THEN outputCall(t.k, a.v) ELSE <<>>]
      [] t.op = "bind" ->
           LET b == Build(t.m, env, bld)
           IN  [ok |-> b.ok,
                c |-> bind(b.c, [x |-> t.x, body |-> t.body, env |-> env]),
                evs |-> b.evs]
      [] t.op = "conditionalOutputAsync" ->
           LET a == Eval(t.c, env, bld)
               d == Eval(t.e, env, bld)
           IN  [ok |-> a.ok /\ d.ok, c |-> conditionalOutputAsync(t.k, a.v, d.v),
                evs |-> <<>>]
      [] t.op = "toLabeled" ->
           LET b == Build(t.m, env, bld)
           IN  [ok |-> b.ok, c |-> toLabeled(b.c), evs |-> b.evs]
      [] t.op = "upData" ->
           LET b == Build(t.m, env, bld)
           IN  [ok |-> b.ok, c |-> upData(t.l, b.c), evs |-> b.evs]
      [] t.op = "downPC" ->
           LET b == Build(t.m, env, bld)
           IN  [ok |-> b.ok, c |-> downPC(t.l, b.c), evs |-> b.evs]
      [] t.op = "sequenceAsync" ->
           LET bs == [i \in DOMAIN t.ms |-> Build(t.ms[i], env, bld)]
           IN  [ok |-> \A i \in DOMAIN bs : bs[i].ok,
                c |-> sequenceAsync([i \in DOMAIN bs |-> bs[i].c]),
                evs |-> Flatten([i \in DOMAIN bs |-> bs[i].evs])]
      [] t.op = "parallelInputAsync" ->
           [ok |-> TRUE, c |-> parallelInputAsync(t.ss), evs |-> <<>>]

\* ------------------------------------------------------------------ state
VARIABLES
    prog,      \* the program handed to the library (a source term)
    build,     \* the JavaScript build in use
    srcVal,    \* per execution, what each source's reader settles with
    snkOk,     \* whether the sinks' writers succeed
    execs,     \* how many executions of the program are performed
    phase,     \* "new", "accepted", "rejected" or "threw"
    lioType,   \* the static LIO type of the program
    comp,      \* the constructed computation
    ctl,       \* per execution, the control state of its run
    stack,     \* per execution, the pending continuations (awaiting frames)
    trace,     \* per execution, the effects so far, in order
    inflight   \* per execution, the reads parallelInputAsync has started

vars == <<prog, build, srcVal, snkOk, execs, phase, lioType, comp,
          ctl, stack, trace, inflight>>
config == <<prog, build, srcVal, snkOk, execs>>

Runs == {1, 2}

Ev(e, id, v) == [e |-> e, id |-> id, v |-> v]

\* Control states.
Unstarted == [st |-> "unstarted"]
Running(c) == [st |-> "run", c |-> c]
AwaitRead(s) == [st |-> "awaitRead", s |-> s]
AwaitWrite(k) == [st |-> "awaitWrite", k |-> k]
AwaitAll(slots) == [st |-> "awaitAll", slots |-> slots]
Value(v) == [st |-> "value", v |-> v]
Error(err) == [st |-> "error", err |-> err]
Fulfilled(v) == [st |-> "fulfilled", v |-> v]
Rejected(err) == [st |-> "rejected", err |-> err]

Settled(r) == ctl[r].st \in {"fulfilled", "rejected"}

\* ------------------------------------------------------------- catalogue
Lit42(l) == label(l, Num(42))
SrcList(l, n) == [i \in 1..n |-> src(l, i)]

\* p: the term; n: how many sources it reads; w: whether it writes;
\* d: whether it destructures.
Entry(p, n, w, d) == [p |-> p, n |-> n, w |-> w, d |-> d]

\* output(snk)(label(ld, 42))
DirectOutputs ==
    {Entry(TOutput(snk(ls, 1), ELit(Lit42(ld))), 0, TRUE, TRUE) : ls \in Level, ld \in Level}
\* bind(input(src), x => output(snk)(x))
ReadWrites ==
    {Entry(TBind(TInput(src(l, 1)), "x", l, TOutput(snk(ls, 1), EVar("x"))),
           1, TRUE, TRUE) : l \in Level, ls \in Level}
\* bind(input(src), x => { const [_, c] = x; return output(snk)(label(ls, c ? 1 : 0)) })
Branches ==
    {Entry(TBind(TInput(src(l, 1)), "x", l,
                 TOutput(snk(ls, 1), ECond(ls, "x", Num(1), Num(0)))),
           1, TRUE, TRUE) : l \in Level, ls \in Level}
\* bind(input(src), x => { const [_, v] = x; return output(snk)(label(ls, v)) })
Relabels ==
    {Entry(TBind(TInput(src(l, 1)), "x", l, TOutput(snk(ls, 1), ERelabel(ls, "x"))),
           1, TRUE, TRUE) : l \in Level, ls \in Level}
\* bind(input(s1), x => bind(input(s2), y => output(snk)(label(l1 | l2, x + y))))
Chains ==
    {Entry(TBind(TInput(src(l1, 1)), "x", l1,
                 TBind(TInput(src(l2, 2)), "y", l2,
                       TOutput(snk(ls, 1), ESum(LUB(l1, l2), "x", "y")))),
           2, TRUE, TRUE) : l1 \in Level, l2 \in Level, ls \in Level}
\* bind(bind(input(src), x => unLabel(x)), y => output(snk)(label(ls, 42)))
UnLabels ==
    {Entry(TBind(TBind(TInput(src(l, 1)), "x", l, TUnLabel(EVar("x"))), "y", l,
                 TOutput(snk(ls, 1), ELit(Lit42(ls)))),
           1, TRUE, TRUE) : l \in Level, ls \in Level}
\* conditionalOutputAsync(snk, label(lc, b))(label(ld, 42))
CondOutputs ==
    {Entry(TCondOut(snk(ls, 1), ELit(label(lc, Bool(b))), ELit(Lit42(ld))), 0, TRUE, TRUE) :
        lc \in Level, ld \in Level, ls \in Level, b \in BOOLEAN}
\* toLabeled(input(src))
ToLabeleds == {Entry(TToLabeled(TInput(src(l, 1))), 1, FALSE, TRUE) : l \in Level}
\* unLabel(label(l, 42))
UnLabelOnly == {Entry(TUnLabel(ELit(Lit42(l))), 0, FALSE, FALSE) : l \in Level}
Inputs == {Entry(TInput(src(l, 1)), 1, FALSE, FALSE) : l \in Level}
Rets == {Entry(TRet(Num(42)), 0, FALSE, FALSE)}
Parallels ==
    {Entry(TPar(SrcList(l, n)), n, FALSE, FALSE) : l \in Level, n \in 0..MaxSources}
Sequences ==
    {Entry(TSeq([i \in 1..n |-> TInput(src(l, i))]), n, FALSE, FALSE) :
        l \in Level, n \in 0..MaxSources}
\* bind(mkLIO<lpc, l, Labeled<l, V>>(..), x => mkLIO<rpc, r, Labeled<r, V>>(..))
TypedBinds ==
    {Entry(TBind(TMk(lpc, l, Lit42(l)), "x", l, TMk(rpc, r, Lit42(r))),
           0, FALSE, FALSE) : lpc \in Level, l \in Level, rpc \in Level, r \in Level}

Flows == ReadWrites \cup Relabels \cup Branches \cup Chains \cup UnLabels
Catalogue ==
    DirectOutputs \cup Flows \cup Inputs \cup Rets \cup Parallels \cup Sequences
        \cup TypedBinds \cup CondOutputs \cup ToLabeleds \cup UnLabelOnly

\* The outcomes of the sources an entry reads; the others are fixed.
SrcVals(n) == {f \in [SrcIds -> Outcomes] : \A i \in SrcIds : i > n => f[i] = Num(10)}

InitRun ==
    /\ phase = "new"
    /\ lioType = LIOT(FALSE, Bot, Bot, OtherT)
    /\ comp = ret(Undefined)
    /\ ctl = [r \in Runs |-> Unstarted]
    /\ stack = [r \in Runs |-> <<>>]
    /\ trace = [r \in Runs |-> <<>>]
    /\ inflight = [r \in Runs |-> <<>>]

Init ==
    /\ \E c \in Catalogue :
         /\ prog = c.p
         /\ \E f \in SrcVals(c.n) : srcVal = [r \in Runs |-> f]
         /\ snkOk \in (IF c.w THEN BOOLEAN ELSE {TRUE})
         /\ build \in (IF c.d THEN Builds ELSE {"native"})
    /\ execs = 1
    /\ InitRun

\* --------------------------------------------------------------- actions
\* The program is composed: the library's signatures accept or reject it,
\* and when accepted the computation object is built (nothing runs).
Construct ==
    /\ phase = "new"
    /\ LET ty == TypeOf(prog, NoEnv)
           b == Build(prog, NoEnv, build)
       IN  /\ lioType' = ty
           /\ phase' = IF ~ty.ok THEN "rejected" ELSE IF b.ok THEN "accepted" ELSE "threw"
           /\ comp' = IF ty.ok /\ b.ok THEN b.c ELSE comp
           /\ trace' = IF ty.ok THEN [r \in Runs |-> trace[r] \o b.evs] ELSE trace
    /\ UNCHANGED <<config, ctl, stack, inflight>>

\* unsafe_runLIO(m): m.run() is called.
unsafe_runLIO(r) ==
    /\ phase = "accepted"
    /\ r <= execs
    /\ ctl[r] = Unstarted
    /\ \A q \in Runs : q < r => Settled(q)
    /\ ctl' = [ctl EXCEPT ![r] = Running(comp)]
    /\ UNCHANGED <<config, phase, lioType, comp, stack, trace, inflight>>

\* What one step of a `run` thunk does, up to its first await: the next
\* control state, the frame pushed (if any), the effects performed, and the
\* reads left in flight.
Step(c, push, evs, fl) == [ctl |-> c, push |-> push, evs |-> evs, fl |-> fl]

\* async () => v   (ret, unLabel, mkLIO)
\* (faulty variant: the thunk awaits a promise that never settles)
pureRunPending(c) == Step(Running(c), <<>>, <<>>, <<>>)
pureRun(c) == Step(Value(c.v), <<>>, <<>>, <<>>)

\* async () => { const value = await r(); return label(l, value); }
inputRun(c) == Step(AwaitRead(c.s), <<>>, <<Ev("read", c.s.id, Null)>>, <<>>)
\* (faulty variant: the value labeled Bot instead of the source's label)
inputSettleBot(s, out) ==
    IF out = Failure THEN Error("IOError") ELSE Value(label(Bot, out))
\* (faulty variant: a failed read is swallowed and undefined is labeled)
inputSettleSwallow(s, out) ==
    Value(label(s.l, IF out = Failure THEN Undefined ELSE out))
inputSettle(s, out) ==
    IF out = Failure THEN Error("IOError") ELSE Value(label(s.l, out))

\* async () => { const [l, value] = data; await w(value); return null; }
outputRun(c, bld) ==
    LET d == Destructure(c.data, bld)
    IN  IF d.ok
        THEN Step(AwaitWrite(c.k), <<>>, <<Ev("write", c.k.id, d.b)>>, <<>>)
        ELSE Step(Error("TypeError"), <<>>, <<>>, <<>>)
outputSettle(ok) == IF ok THEN Value(Null) ELSE Error("IOError")

\* async () => { const [_, shouldWrite] = condition;
\*               if (shouldWrite) { const [ldata, value] = data; await w(value); }
\*               return null; }
conditionalOutputAsyncRun(c, bld) ==
    LET dc == Destructure(c.condition, bld)
        dd == Destructure(c.data, bld)
    IN  IF ~dc.ok
        THEN Step(Error("TypeError"), <<>>, <<>>, <<>>)
        ELSE IF ~Truthy(dc.b)
        THEN Step(Value(Null), <<>>, <<>>, <<>>)
        ELSE IF ~dd.ok
        THEN Step(Error("TypeError"), <<>>, <<>>, <<>>)
        ELSE Step(AwaitWrite(c.k), <<>>, <<Ev("write", c.k.id, dd.b)>>, <<>>)

\* async () => { const lv = await m.run(); ... }
toLabeledRun(c) == Step(Running(c.m), <<[k |-> "toLabeled"]>>, <<>>, <<>>)
\* ... const [l, v] = lv; return label(l, lv); }
\* The label slot then holds what destructuring gave: the value undefined.
UndefinedLevel == {"undefined"}
toLabeledResume(lv, bld) ==
    LET d == Destructure(lv, bld)
    IN  IF ~d.ok THEN Error("TypeError")
        ELSE Value(label(IF d.a = Undefined THEN UndefinedLevel ELSE getLabel(d.a), lv))

\* async () => { const labeledValue = await m.run(); ... }
\* (faulty variant: when m is itself a bind, m's own continuation is dropped
\* and only m's first computation is awaited)
bindRunFlat(c) ==
    IF c.m.op = "bind"
    THEN Step(Running(c.m.m), <<[k |-> "bind", f |-> c.f]>>, <<>>, <<>>)
    ELSE Step(Running(c.m), <<[k |-> "bind", f |-> c.f]>>, <<>>, <<>>)
bindRun(c) == Step(Running(c.m), <<[k |-> "bind", f |-> c.f]>>, <<>>, <<>>)
\* ... const result = f(labeledValue); return await result.run(); }
bindResume(f, v, bld) ==
    LET b == Build(f.body, (f.x :> v) @@ f.env, bld)
    IN  IF b.ok THEN Running(b.c) ELSE Error("TypeError")
\* what the call f(labeledValue) itself invokes
bindResumeCall(f, v, bld) == Build(f.body, (f.x :> v) @@ f.env, bld).evs

\* async () => { const results = []; for (const m of ms) { results.push(await m.run()); } ... }
sequenceAsyncRun(c) ==
    IF Len(c.ms) = 0
    THEN Step(Value(Arr(<<>>)), <<>>, <<>>, <<>>)
    ELSE Step(Running(c.ms[1]),
              <<[k |-> "seq", i |-> 1, ms |-> c.ms, results |-> <<>>]>>,
              <<Ev("seqRun", 1, Null)>>, <<>>)
\* results.push(v), then the next m of the loop, or `return results`.
\* (faulty variant: results.unshift instead of results.push)
sequenceAsyncResumeUnshift(fr, v) ==
    LET results == <<v>> \o fr.results
    IN  IF fr.i = Len(fr.ms)
        THEN Step(Value(Arr(results)), <<>>, <<Ev("seqGot", fr.i, v)>>, <<>>)
        ELSE Step(Running(fr.ms[fr.i + 1]),
                  <<[fr EXCEPT !.i = fr.i + 1, !.results = results]>>,
                  <<Ev("seqGot", fr.i, v), Ev("seqRun", fr.i + 1, Null)>>, <<>>)
sequenceAsyncResume(fr, v) ==
    LET results == Append(fr.results, v)
    IN  IF fr.i = Len(fr.ms)
        THEN Step(Value(Arr(results)), <<>>, <<Ev("seqGot", fr.i, v)>>, <<>>)
        ELSE Step(Running(fr.ms[fr.i + 1]),
                  <<[fr EXCEPT !.i = fr.i + 1, !.results = results]>>,
                  <<Ev("seqGot", fr.i, v), Ev("seqRun", fr.i + 1, Null)>>, <<>>)

\* async () => { const promises = sources.map(([l, r]) => r().then(value => label(l, value)));
\*               return await Promise.all(promises); }
NotYet == [t |-> "pending", n |-> 0]
parallelInputAsyncRun(c) ==
    IF Len(c.ss) = 0
    THEN Step(Value(Arr(<<>>)), <<>>, <<>>, <<>>)
    ELSE Step(AwaitAll([i \in DOMAIN c.ss |-> NotYet]), <<>>,
              [i \in DOMAIN c.ss |-> Ev("read", c.ss[i].id, Null)],
              [i \in DOMAIN c.ss |-> [s |-> c.ss[i], st |-> "pending"]])
\* Promise.all, when promise i settles with `out` while the composite is
\* pending: it rejects on the first rejection, and fulfils with the values in
\* the order of the promises once every one is fulfilled.
\* (faulty variants: values collected in completion order; Promise.allSettled)
FirstFree(slots) == CHOOSE j \in DOMAIN slots :
    slots[j] = NotYet /\ \A q \in DOMAIN slots : q < j => slots[q] # NotYet
promiseAllCompletionOrder(slots, i, s, out) ==
    IF out = Failure
    THEN Error("IOError")
    ELSE LET filled == [slots EXCEPT ![FirstFree(slots)] = label(s.l, out)]
         IN  IF \A j \in DOMAIN filled : filled[j] # NotYet
             THEN Value(Arr(filled))
             ELSE AwaitAll(filled)
promiseAllSettled(slots, i, s, out) ==
    LET filled == [slots EXCEPT ![i] = IF out = Failure THEN Undefined ELSE label(s.l, out)]
    IN  IF \A j \in DOMAIN filled : filled[j] # NotYet
        THEN Value(Arr(filled))
        ELSE AwaitAll(filled)
\* (faulty variant: a rejection is reported only once every promise settled)
promiseAllLate(slots, i, s, out) ==
    LET filled == [slots EXCEPT ![i] = IF out = Failure THEN Failure ELSE label(s.l, out)]
    IN  IF \E j \in DOMAIN filled : filled[j] = NotYet
        THEN AwaitAll(filled)
        ELSE IF \E j \in DOMAIN filled : filled[j] = Failure
             THEN Error("IOError")
             ELSE Value(Arr(filled))
promiseAll(slots, i, s, out) ==
    IF out = Failure
    THEN Error("IOError")
    ELSE LET filled == [slots EXCEPT ![i] = label(s.l, out)]
         IN  IF \A j \in DOMAIN filled : filled[j] # NotYet
             THEN Value(Arr(filled))
             ELSE AwaitAll(filled)

\* A computation's run thunk is entered and runs to its first await.
RunStep(r) ==
    /\ ctl[r].st = "run"
    /\ LET c == ctl[r].c
           n == CASE c.op \in {"ret", "unLabel", "mkLIO"} -> pureRun(c)
                  [] c.op = "input" -> inputRun(c)
                  [] c.op = "output" -> outputRun(c, build)
                  [] c.op = "bind" -> bindRun(c)
                  [] c.op = "conditionalOutputAsync" -> conditionalOutputAsyncRun(c, build)
                  [] c.op = "toLabeled" -> toLabeledRun(c)
                  [] c.op = "sequenceAsync" -> sequenceAsyncRun(c)
                  [] c.op = "parallelInputAsync" -> parallelInputAsyncRun(c)
       IN  /\ ctl' = [ctl EXCEPT ![r] = n.ctl]
           /\ stack' = [stack EXCEPT ![r] = n.push \o @]
           /\ trace' = [trace EXCEPT ![r] = @ \o n.evs]
           /\ inflight' = IF n.fl = <<>> THEN inflight ELSE [inflight EXCEPT ![r] = n.fl]
    /\ UNCHANGED <<config, phase, lioType, comp>>

\* The reader's promise settles.
ReaderSettle(r) ==
    /\ ctl[r].st = "awaitRead"
    /\ LET s == ctl[r].s
           out == srcVal[r][s.id]
       IN  /\ ctl' = [ctl EXCEPT ![r] = inputSettle(s, out)]
           /\ trace' = [trace EXCEPT ![r] = Append(@, Ev("readSettled", s.id, out))]
    /\ UNCHANGED <<config, phase, lioType, comp, stack, inflight>>

\* The writer's promise settles.
WriterSettle(r) ==
    /\ ctl[r].st = "awaitWrite"
    /\ ctl' = [ctl EXCEPT ![r] = outputSettle(snkOk)]
    /\ trace' = [trace EXCEPT ![r] =
                   Append(@, Ev("writeSettled", ctl[r].k.id, IF snkOk THEN Null ELSE Failure))]
    /\ UNCHANGED <<config, phase, lioType, comp, stack, inflight>>

\* One of the reads parallelInputAsync started settles, in any order.
ParallelSettle(r, i) ==
    /\ i \in DOMAIN inflight[r]
    /\ inflight[r][i].st = "pending"
    /\ LET s == inflight[r][i].s
           out == srcVal[r][s.id]
       IN  /\ inflight' = [inflight EXCEPT ![r][i].st = "settled"]
           /\ trace' = [trace EXCEPT ![r] = Append(@, Ev("readSettled", s.id, out))]
           /\ ctl' = IF ctl[r].st = "awaitAll"
                     THEN [ctl EXCEPT ![r] = promiseAll(ctl[r].slots, i, s, out)]
                     ELSE ctl
    /\ UNCHANGED <<config, phase, lioType, comp, stack>>

\* const labeledValue = await m.run(): a local of the run's own thunk.
\* (faulty variant: the awaited result is kept in one variable of the module,
\* shared by all the runs in progress)
awaitedShared(r) == ctl[CHOOSE q \in DOMAIN ctl : ctl[q].st = "value"].v
awaited(r) == ctl[r].v

\* An awaited computation fulfilled: the awaiting frame resumes with its value.
Resume(r) ==
    /\ ctl[r].st = "value"
    /\ stack[r] # <<>>
    /\ LET fr == Head(stack[r])
           v == awaited(r)
       IN  IF fr.k = "bind"
           THEN /\ ctl' = [ctl EXCEPT ![r] = bindResume(fr.f, v, build)]
                /\ stack' = [stack EXCEPT ![r] = Tail(@)]
                /\ trace' = [trace EXCEPT ![r] =
                               Append(@, Ev("call", 0, v)) \o bindResumeCall(fr.f, v, build)]
           ELSE IF fr.k = "toLabeled"
           THEN /\ ctl' = [ctl EXCEPT ![r] = toLabeledResume(v, build)]
                /\ stack' = [stack EXCEPT ![r] = Tail(@)]
                /\ UNCHANGED trace
           ELSE LET n == sequenceAsyncResume(fr, v)
                IN  /\ ctl' = [ctl EXCEPT ![r] = n.ctl]
                    /\ stack' = [stack EXCEPT ![r] = n.push \o Tail(@)]
                    /\ trace' = [trace EXCEPT ![r] = @ \o n.evs]
    /\ UNCHANGED <<config, phase, lioType, comp, inflight>>

\* What an awaiting frame does when the awaited run rejects: no thunk of the
\* library has a try/catch, so the await throws and the frame's own async
\* function rejects with the same error.
\* (faulty variant: the loop of sequenceAsync catches the failure and goes on)
awaitThrowsSkip(fr, err) ==
    IF fr.k = "seq"
    THEN sequenceAsyncResume(fr, Undefined)
    ELSE Step(Error(err), <<>>, <<>>, <<>>)
awaitThrows(fr, err) == Step(Error(err), <<>>, <<>>, <<>>)

\* An awaited computation rejected: the awaiting async function rejects too.
Propagate(r) ==
    /\ ctl[r].st = "error"
    /\ stack[r] # <<>>
    /\ LET n == awaitThrows(Head(stack[r]), ctl[r].err)
       IN  /\ ctl' = [ctl EXCEPT ![r] = n.ctl]
           /\ stack' = [stack EXCEPT ![r] = n.push \o Tail(@)]
           /\ trace' = [trace EXCEPT ![r] = @ \o n.evs]
    /\ UNCHANGED <<config, phase, lioType, comp, inflight>>

\* The promise unsafe_runLIO returned settles.
Settle(r) ==
    /\ ctl[r].st \in {"value", "error"}
    /\ stack[r] = <<>>
    /\ ctl' = [ctl EXCEPT ![r] =
                 IF ctl[r].st = "value" THEN Fulfilled(ctl[r].v) ELSE Rejected(ctl[r].err)]
    /\ UNCHANGED <<config, phase, lioType, comp, stack, trace, inflight>>

Exec(r) ==
    \/ unsafe_runLIO(r)
    \/ RunStep(r)
    \/ ReaderSettle(r)
    \/ WriterSettle(r)
    \/ \E i \in SrcIds : ParallelSettle(r, i)
    \/ Resume(r)
    \/ Propagate(r)
    \/ Settle(r)

Next == Construct \/ \E r \in Runs : Exec(r)

Spec == Init /\ [][Next]_vars

\* The same executions under the scheduling JavaScript gives them: a started
\* run's thunks, continuations and promise reactions are jobs of the event
\* loop, which runs every queued job, and every reader and writer invoked is
\* taken to settle eventually.
Progress(r) ==
    \/ RunStep(r)
    \/ ReaderSettle(r)
    \/ WriterSettle(r)
    \/ \E i \in SrcIds : ParallelSettle(r, i)
    \/ Resume(r)
    \/ Propagate(r)
    \/ Settle(r)
SpecLive == Init /\ [][Next]_vars /\ \A r \in Runs : WF_vars(Progress(r))

\* Two executions of one program of the sequential primitives, one after the
\* other, in which every source may produce a different outcome.
InitNI ==
    /\ \E c \in DirectOutputs \cup Flows :
         /\ prog = c.p
         /\ \E f \in SrcVals(c.n), g \in SrcVals(c.n) : srcVal = [r \in Runs |-> IF r = 1 THEN f ELSE g]
         /\ snkOk = TRUE
         /\ build \in Builds
    /\ execs = 2
    /\ InitRun
ExecNI(r) ==
    \/ unsafe_runLIO(r)
    \/ RunStep(r)
    \/ ReaderSettle(r)
    \/ WriterSettle(r)
    \/ Resume(r)
    \/ Propagate(r)
    \/ Settle(r)
NextNI == Construct \/ \E r \in Runs : ExecNI(r)
SpecNI == InitNI /\ [][NextNI]_vars

\* The pure operations, applied once to arguments drawn from the levels and
\* a few values: prog holds the application, comp receives what it returned.
PureValues == ReadValues \cup {Null, Undefined, Bool(TRUE), label(Bot, Num(42))}
LabelCalls == {[op |-> "label", l |-> l, v |-> v] : l \in Level, v \in PureValues}
UpLabelCalls ==
    {[op |-> "upLabel", l_ |-> l_, lv |-> label(l, v)] :
        l_ \in Level, l \in Level, v \in ReadValues}
LatticeCalls == {[op |-> "lattice", a |-> a, b |-> b, c |-> c] : a \in Level, b \in Level, c \in Level}
InitPure ==
    /\ prog \in LabelCalls \cup UpLabelCalls \cup LatticeCalls
    /\ build = "native"
    /\ srcVal = [r \in Runs |-> [i \in SrcIds |-> Num(10)]]
    /\ snkOk = TRUE
    /\ execs = 1
    /\ InitRun
\* const lv = label(l, v); then the two accessors and the two projections.
labelCall ==
    /\ phase = "new" /\ prog.op = "label"
    /\ LET lv == label(prog.l, prog.v)
       IN  comp' = [lv |-> lv, getLabel |-> getLabel(lv), unsafeGetValue |-> unsafeGetValue(lv),
                    labelOf |-> labelOf(lv), unsafe_valueOf |-> unsafe_valueOf(lv)]
    /\ phase' = "accepted"
    /\ UNCHANGED <<config, lioType, ctl, stack, trace, inflight>>
\* upLabel(l_)(lv): rejected by `L extends L_`, or a new labeled value.
upLabelCall ==
    /\ phase = "new" /\ prog.op = "upLabel"
    /\ IF upLabelAccepts(prog.l_, prog.lv)
       THEN /\ comp' = [res |-> upLabel(prog.l_, prog.lv), lv |-> prog.lv]
            /\ phase' = "accepted"
       ELSE /\ comp' = comp
            /\ phase' = "rejected"
    /\ UNCHANGED <<config, lioType, ctl, stack, trace, inflight>>
\* The lattice operations on three levels.
latticeCall ==
    /\ phase = "new" /\ prog.op = "lattice"
    /\ comp' = [leq |-> canFlowTo(prog.a, prog.b), join |-> LUB(prog.a, prog.b),
                meet |-> GLB(prog.a, prog.b)]
    /\ phase' = "accepted"
    /\ UNCHANGED <<config, lioType, ctl, stack, trace, inflight>>
NextPure == labelCall \/ upLabelCall \/ latticeCall
SpecPure == InitPure /\ [][NextPure]_vars

\* One execution of a program of the sequential primitives, among them the
\* chains whose last continuation writes a freshly labelled combination:
\* bind(input(s1), x => bind(input(s2), y => output(snk)(label(ld, x + y))))
FreshChains ==
    {Entry(TBind(TInput(src(l1, 1)), "x", l1,
                 TBind(TInput(src(l2, 2)), "y", l2,
                       TOutput(snk(ls, 1), ESum(ld, "x", "y")))),
           2, TRUE, TRUE) : l1 \in Level, l2 \in Level, ld \in Level, ls \in Level}
InitFlow ==
    /\ \E c \in Flows \cup FreshChains :
         /\ prog = c.p
         /\ \E f \in SrcVals(c.n) : srcVal = [r \in Runs |-> f]
         /\ snkOk = TRUE
         /\ build \in Builds
    /\ execs = 1
    /\ InitRun
SpecFlow == InitFlow /\ [][NextNI]_vars

\* A computation m and its relabelling upData(l_, m) or downPC(lpc_, m), both
\* run by the driver one after the other against the same readers and
\* writers: execution 1 runs the relabelled computation, execution 2 runs m.
Relabelled ==
    {Entry(TUpData(l_, e.p), e.n, e.w, e.d) : l_ \in Level, e \in Inputs \cup ReadWrites}
        \cup {Entry(TDownPC(l_, e.p), e.n, e.w, e.d) : l_ \in Level, e \in Inputs \cup ReadWrites}
InitRel ==
    /\ \E c \in Relabelled :
         /\ prog = c.p
         /\ \E f \in SrcVals(c.n) : srcVal = [r \in Runs |-> f]
         /\ snkOk \in BOOLEAN
         /\ build \in Builds
    /\ execs = 2
    /\ InitRun
\* unsafe_runLIO(m), for the m that was relabelled
unsafe_runLIO_m ==
    /\ phase = "accepted"
    /\ ctl[2] = Unstarted
    /\ Settled(1)
    /\ ctl' = [ctl EXCEPT ![2] = Running(Build(prog.m, NoEnv, build).c)]
    /\ UNCHANGED <<config, phase, lioType, comp, stack, trace, inflight>>
ExecRel(r) ==
    \/ RunStep(r)
    \/ ReaderSettle(r)
    \/ WriterSettle(r)
    \/ Resume(r)
    \/ Propagate(r)
    \/ Settle(r)
NextRel == Construct \/ unsafe_runLIO(1) \/ unsafe_runLIO_m \/ \E r \in Runs : ExecRel(r)
SpecRel == InitRel /\ [][NextRel]_vars

\* main(): two independent workflows, each with its own sink, over readers
\* they may share.  Executions 1 and 2 run them one after the other;
\* executions 3 and 4 run them as Promise.all([unsafe_runLIO(w1),
\* unsafe_runLIO(w2)]) does, both in progress at once.
ConcRuns == 1..4
Workflow1(l, i) == TBind(TInput(src(l, i)), "x", l, TOutput(snk(l, 1), EVar("x")))
Workflow2(l) ==
    TBind(TInput(src(l, 1)), "x", l,
          TBind(TInput(src(l, 2)), "y", l, TOutput(snk(l, 2), ESum(l, "x", "y"))))
Mains ==
    {[op |-> "main", ms |-> <<Workflow1(l1, i), Workflow2(l2)>>] :
        l1 \in Level, l2 \in Level, i \in 1..2}
InitConc ==
    /\ prog \in Mains
    /\ \E f \in SrcVals(2) : srcVal = [r \in ConcRuns |-> f]
    /\ snkOk \in BOOLEAN
    /\ build \in Builds
    /\ execs = 4
    /\ phase = "new"
    /\ lioType = LIOT(FALSE, Bot, Bot, OtherT)
    /\ comp = ret(Undefined)
    /\ ctl = [r \in ConcRuns |-> Unstarted]
    /\ stack = [r \in ConcRuns |-> <<>>]
    /\ trace = [r \in ConcRuns |-> <<>>]
    /\ inflight = [r \in ConcRuns |-> <<>>]
\* The workflows are composed at module level.
ConstructMain ==
    /\ phase = "new"
    /\ LET tys == [i \in 1..2 |-> TypeOf(prog.ms[i], NoEnv)]
           bs == [i \in 1..2 |-> Build(prog.ms[i], NoEnv, build)]
           ok == \A i \in 1..2 : tys[i].ok
       IN  /\ phase' = IF ~ok THEN "rejected"
                       ELSE IF \A i \in 1..2 : bs[i].ok THEN "accepted" ELSE "threw"
           /\ comp' = IF ok THEN [op |-> "main", ms |-> [i \in 1..2 |-> bs[i].c]] ELSE comp
           /\ trace' = IF ok THEN [r \in ConcRuns |-> trace[r] \o bs[1].evs \o bs[2].evs]
                       ELSE trace
    /\ UNCHANGED <<config, lioType, ctl, stack, inflight>>
WorkflowOf(r) == ((r - 1) % 2) + 1
\* unsafe_runLIO(w): 2 after 1 has settled; 3 and 4 one right after the other.
runWorkflow(r) ==
    /\ phase = "accepted"
    /\ ctl[r] = Unstarted
    /\ r \in {2, 3} => Settled(r - 1)
    /\ r = 4 => ctl[3] # Unstarted
    /\ ctl' = [ctl EXCEPT ![r] = Running(comp.ms[WorkflowOf(r)])]
    /\ UNCHANGED <<config, phase, lioType, comp, stack, trace, inflight>>
NextConc == ConstructMain \/ \E r \in ConcRuns : runWorkflow(r) \/ ExecRel(r)
SpecConc == InitConc /\ [][NextConc]_vars

\* The two sides of a monad law, run by the driver one after the other
\* against the same readers and writers: execution 1 runs lhs, execution 2
\* runs rhs.  env binds the variables free in rhs.
Law(name, lhs, rhs, env) == [op |-> "law", law |-> name, lhs |-> lhs, rhs |-> rhs, env |-> env]
\* the continuations f (of x) used for left identity
LeftIdBodies(l) ==
    {TUnLabel(EVar("x")), TInput(src(l, 1))}
        \cup {TOutput(snk(ls, 1), EVar("x")) : ls \in Level}
        \cup {TOutput(snk(ls, 1), ERelabel(ls, "x")) : ls \in Level}
        \cup {TBind(TInput(src(l2, 1)), "y", l2, TOutput(snk(ls, 1), ESum(ls, "x", "y"))) :
                l2 \in Level, ls \in Level}
\* bind(ret(lv), f)  against  f(lv)
LeftIdentities ==
    {Law("leftIdentity", TBind(TRet(Lit42(l)), "x", l, f), f, "x" :> Lit42(l)) :
        l \in Level, f \in UNION {LeftIdBodies(l1) : l1 \in Level}}
\* bind(bind(m, f), g)  against  bind(m, x => bind(f(x), g))
AssocFs(l) == {TUnLabel(EVar("x")), TInput(src(l, 2)), TOutput(snk(l, 2), EVar("x"))}
AssocGs(ls) == {TOutput(snk(ls, 1), EVar("y")), TOutput(snk(ls, 1), ERelabel(ls, "y")),
                TUnLabel(EVar("y"))}
AssocOn(l) ==
    {Law("associativity",
         TBind(TBind(TInput(src(l, 1)), "x", l, f), "y", l, g),
         TBind(TInput(src(l, 1)), "x", l, TBind(f, "y", l, g)), NoEnv) :
        f \in AssocFs(l), g \in UNION {AssocGs(ls) : ls \in Level}}
Associativities == UNION {AssocOn(l) : l \in Level}
InitLaw ==
    /\ prog \in LeftIdentities \cup Associativities
    /\ \E f \in SrcVals(2) : srcVal = [r \in Runs |-> f]
    /\ snkOk \in BOOLEAN
    /\ build \in Builds
    /\ execs = 2
    /\ InitRun
\* Both sides are composed; evaluating f(lv) for the right-hand side of
\* left identity may throw.
ConstructLaw ==
    /\ phase = "new"
    /\ LET tenv == [x \in DOMAIN prog.env |-> LabeledT(getLabel(prog.env[x]))]
           ok == TypeOf(prog.lhs, NoEnv).ok /\ TypeOf(prog.rhs, tenv).ok
           bs == <<Build(prog.lhs, NoEnv, build), Build(prog.rhs, prog.env, build)>>
       IN  /\ lioType' = TypeOf(prog.lhs, NoEnv)
           /\ phase' = IF ok THEN "accepted" ELSE "rejected"
           /\ comp' = IF ok THEN [op |-> "law", cs |-> bs] ELSE comp
           /\ trace' = IF ok THEN [r \in Runs |-> trace[r] \o bs[r].evs] ELSE trace
    /\ UNCHANGED <<config, ctl, stack, inflight>>
\* unsafe_runLIO of one side; a side whose construction threw fails with
\* that error.
runSide(r) ==
    /\ phase = "accepted"
    /\ ctl[r] = Unstarted
    /\ r = 2 => Settled(1)
    /\ ctl' = [ctl EXCEPT ![r] = IF comp.cs[r].ok THEN Running(comp.cs[r].c)
                                 ELSE Error("TypeError")]
    /\ UNCHANGED <<config, phase, lioType, comp, stack, trace, inflight>>
NextLaw == ConstructLaw \/ \E r \in Runs : runSide(r) \/ ExecRel(r)
SpecLaw == InitLaw /\ [][NextLaw]_vars

\* Labeled values as objects.  label(l, v) returns a new object whose two
\* methods close over the constants privateLabel and privateValue; the
\* operations receive such an object by reference.  h is the store of the
\* objects created so far, Ref(i) the reference to the i-th.  Every operation
\* gives the store it leaves and its result.
Ref(i) == [t |-> "ref", n |-> i]
Did(h, res) == [h |-> h, res |-> res]
labelObj(h, l, v) ==
    Did(Append(h, [privateLabel |-> l, privateValue |-> v]), Ref(Len(h) + 1))
getLabelObj(h, ref) == Did(h, [k |-> "level", l |-> h[ref.n].privateLabel])
unsafeGetValueObj(h, ref) == Did(h, [k |-> "value", v |-> h[ref.n].privateValue])
\* (faulty variant: the object's label is overwritten and the object returned)
upLabelInPlace(h, l_, ref) == Did([h EXCEPT ![ref.n].privateLabel = l_], ref)
upLabelObj(h, l_, ref) == labelObj(h, l_, unsafeGetValueObj(h, ref).res.v)
\* running unLabel(lv): async () => lv
unLabelObj(h, ref) == Did(h, ref)
\* running bind(unLabel(lv), x => unLabel(x)): f is called with lv, and the
\* result of f(lv).run() is returned
bindObj(h, ref) == unLabelObj(unLabelObj(h, ref).h, unLabelObj(h, ref).res)
\* running toLabeled(unLabel(lv)): const [l, v] = lv; return label(l, lv)
toLabeledObj(h, ref, bld) ==
    LET d == Destructure([t |-> "Labeled"], bld)
    IN  IF ~d.ok THEN Did(h, [k |-> "TypeError"])
        ELSE labelObj(h, UndefinedLevel, unLabelObj(h, ref).res)
\* running output(snk)(lv): const [l, value] = data; await w(value); return null
outputObj(h, ref, bld) ==
    LET d == Destructure([t |-> "Labeled"], bld)
    IN  IF ~d.ok THEN Did(h, [k |-> "TypeError"])
        ELSE Did(h, [k |-> "wrote", v |-> d.b])

ObjOps == {"getLabel", "unsafeGetValue", "upLabel", "unLabel", "bind", "toLabeled", "output"}
InitObj ==
    /\ prog \in {[op |-> "object", l |-> l, v |-> v] : l \in Level, v \in ReadValues}
    /\ build \in Builds
    /\ srcVal = [r \in Runs |-> [i \in SrcIds |-> Num(10)]]
    /\ snkOk = TRUE
    /\ execs = 1
    /\ InitRun
\* const lv = label(l, v)
labelStep ==
    /\ phase = "new" /\ prog.op = "object"
    /\ comp' = [o |-> labelObj(<<>>, prog.l, prog.v), n |-> 0, op |-> "label"]
    /\ phase' = "accepted"
    /\ UNCHANGED <<config, lioType, ctl, stack, trace, inflight>>
\* One more operation on one of the objects created so far.  upLabel is
\* accepted only upwards (`L extends L_`).
Apply(op, ref, l_) ==
    CASE op = "getLabel" -> getLabelObj(comp.o.h, ref)
      [] op = "unsafeGetValue" -> unsafeGetValueObj(comp.o.h, ref)
      [] op = "upLabel" -> upLabelObj(comp.o.h, l_, ref)
      [] op = "unLabel" -> unLabelObj(comp.o.h, ref)
      [] op = "bind" -> bindObj(comp.o.h, ref)
      [] op = "toLabeled" -> toLabeledObj(comp.o.h, ref, build)
      [] op = "output" -> outputObj(comp.o.h, ref, build)
opStep(op) ==
    /\ phase = "accepted" /\ prog.op = "object"
    /\ comp.n < MaxOps
    /\ \E i \in DOMAIN comp.o.h, l_ \in Level :
          /\ op = "upLabel" => canFlowTo(comp.o.h[i].privateLabel, l_)
          /\ op # "upLabel" => l_ = Bot
          /\ comp' = [o |-> Apply(op, Ref(i), l_), n |-> comp.n + 1, op |-> op]
    /\ UNCHANGED <<config, phase, lioType, ctl, stack, trace, inflight>>
NextObj == labelStep \/ \E op \in ObjOps : opStep(op)
SpecObj == InitObj /\ [][NextObj]_vars

\* ------------------------------------------------------ reading the model
\* The events of one kind on one source or sink, and their values.
Sel(r, kind, id) == SelectSeq(trace[r], LAMBDA ev : ev.e = kind /\ ev.id = id)
Vals(evs) == [i \in DOMAIN evs |-> evs[i].v]
ReadsOf(r, id) == Sel(r, "read", id)
WritesOf(r, id) == Sel(r, "write", id)
\* The reader and writer invocations of an execution, in order.
Effects(r) == SelectSeq(trace[r], LAMBDA ev : ev.e \in {"read", "write"})
Calls(r) == SelectSeq(trace[r], LAMBDA ev : ev.e = "call")
Constructed == phase # "new"

\* Every output(k)(e) of a program, with the label of its data.
RECURSIVE OutputsOf(_, _)
OutputsOf(t, tenv) ==
    CASE t.op = "output" -> {[k |-> t.k, dl |-> ExprType(t.e, tenv).l]}
      [] t.op = "bind" ->
            OutputsOf(t.m, tenv) \cup OutputsOf(t.body, (t.x :> LabeledT(t.lx)) @@ tenv)
      [] t.op \in {"upData", "downPC"} -> OutputsOf(t.m, tenv)
      [] t.op = "sequenceAsync" ->
            UNION {OutputsOf(t.ms[i], tenv) : i \in DOMAIN t.ms}
      [] OTHER -> {}
\* Every bind(m, f) of a program: m's data label, the label of the value m
\* hands to f, and the pc label of f's computation.
RECURSIVE BindsOf(_, _)
BindsOf(t, tenv) ==
    CASE t.op = "bind" ->
            LET inner == (t.x :> LabeledT(t.lx)) @@ tenv
            IN  {[l |-> TypeOf(t.m, tenv).l, lv |-> TypeOf(t.m, tenv).v.l,
                  rpc |-> TypeOf(t.body, inner).pc]}
                    \cup BindsOf(t.m, tenv) \cup BindsOf(t.body, inner)
      [] t.op \in {"upData", "downPC"} -> BindsOf(t.m, tenv)
      [] t.op = "sequenceAsync" ->
            UNION {BindsOf(t.ms[i], tenv) : i \in DOMAIN t.ms}
      [] OTHER -> {}
\* The sources a program reads.
RECURSIVE SourcesOf(_)
SourcesOf(t) ==
    CASE t.op = "input" -> {t.s}
      [] t.op = "bind" -> SourcesOf(t.m) \cup SourcesOf(t.body)
      [] t.op \in {"toLabeled", "upData", "downPC"} -> SourcesOf(t.m)
      [] t.op = "sequenceAsync" -> UNION {SourcesOf(t.ms[i]) : i \in DOMAIN t.ms}
      [] t.op = "parallelInputAsync" -> {t.ss[i] : i \in DOMAIN t.ss}
      [] OTHER -> {}

IllegalOutputs == {o \in OutputsOf(prog, NoEnv) : ~canFlowTo(o.dl, o.k.l)}
IllegalBinds == {b \in BindsOf(prog, NoEnv) : ~canFlowTo(LUB(b.l, b.lv), b.rpc)}
DataLabelIllegalBinds == {b \in BindsOf(prog, NoEnv) : ~canFlowTo(b.l, b.rpc)}

\* ------------------------------------------------------------------ C1
\* C1: a program that contains output(snk)(data) where the label of data does
\* not flow to the label of snk is rejected when it is constructed (it is
\* never accepted, never runs), and the writer of snk is never invoked.
C1_IllegalOutputRejected ==
    \A o \in IllegalOutputs :
        /\ Constructed => phase = "rejected"
        /\ \A r \in Runs : ctl[r] = Unstarted /\ WritesOf(r, o.k.id) = <<>>
C1_Witness ==
    /\ phase = "rejected"
    /\ prog.op = "output"
    /\ IllegalOutputs # {}

\* ------------------------------------------------------------------ C2
\* C2: a program that contains bind(m, f) where the label L of what m hands
\* over (m's data label joined with the label of its value) does not flow to
\* the pc label of f's computation is rejected when it is constructed, and
\* no reader or writer of the program is ever invoked.
C2_IllegalBindRejected ==
    IllegalBinds # {} =>
        /\ Constructed => phase = "rejected"
        /\ \A r \in Runs : ctl[r] = Unstarted /\ trace[r] = <<>>
C2_Witness ==
    /\ phase = "rejected"
    /\ DataLabelIllegalBinds # {}
    /\ IllegalOutputs = {}
    /\ SourcesOf(prog) # {}
    /\ OutputsOf(prog, NoEnv) # {}

\* ------------------------------------------------------------------ C4
\* C4: when the data's label flows to the sink's label, running
\* output(snk)(data) invokes the writer exactly once with the raw value and
\* fulfils with null; bind(input(src), output(snk)) delivers to the writer
\* exactly the value the reader produced.
IsDirectOutput == prog.op = "output" /\ prog.e.e = "lit"
IsReadWrite ==
    /\ prog.op = "bind" /\ prog.m.op = "input"
    /\ prog.body.op = "output" /\ prog.body.e = EVar(prog.x)
C4_OutputWritesRawValue ==
    \A r \in Runs :
        (phase = "accepted" /\ Settled(r) /\ snkOk) =>
            /\ IsDirectOutput =>
                  /\ Vals(WritesOf(r, prog.k.id)) = <<unsafeGetValue(prog.e.lv)>>
                  /\ ctl[r] = Fulfilled(Null)
            /\ (IsReadWrite /\ srcVal[r][prog.m.s.id] # Failure) =>
                  /\ Vals(WritesOf(r, prog.body.k.id)) = <<srcVal[r][prog.m.s.id]>>
                  /\ ctl[r] = Fulfilled(Null)

\* ------------------------------------------------------------------ C5
\* C5: input(src) has pc label Top and data label Bot; running it invokes the
\* reader exactly once, and when the read succeeds it fulfils with a labeled
\* value whose label is the source's and whose raw value is the reader's.
\* The same labeled value is what bind hands to the continuation.
IsInput == prog.op = "input"
BindsInput == prog.op = "bind" /\ prog.m.op = "input"
C5_InputLabelsAndValue ==
    /\ (IsInput /\ Constructed) =>
          /\ phase = "accepted"
          /\ lioType.pc = Principals /\ lioType.l = {}
          /\ lioType.v = LabeledT(prog.s.l)
    /\ \A r \in Runs :
          /\ IsInput =>
                /\ Len(ReadsOf(r, prog.s.id)) =
                      (IF ctl[r].st \in {"unstarted", "run"} THEN 0 ELSE 1)
                /\ (Settled(r) /\ srcVal[r][prog.s.id] # Failure) =>
                      /\ ctl[r].st = "fulfilled"
                      /\ getLabel(ctl[r].v) = prog.s.l
                      /\ unsafeGetValue(ctl[r].v) = srcVal[r][prog.s.id]
          /\ (BindsInput /\ Calls(r) # <<>>) =>
                /\ Len(ReadsOf(r, prog.m.s.id)) = 1
                /\ getLabel(Calls(r)[1].v) = prog.m.s.l
                /\ unsafeGetValue(Calls(r)[1].v) = srcVal[r][prog.m.s.id]
C5_Witness ==
    /\ IsInput /\ prog.s.l # {}
    /\ ctl[1].st = "fulfilled"
    /\ unsafeGetValue(ctl[1].v) = Num(42)

\* ------------------------------------------------------------------ C6
\* C6: in a chain that reads 42, then reads 10, then writes their sum, the
\* effects happen in the order read, read, write, each continuation receives
\* the result of the computation before it, and the writer is invoked exactly
\* once, with 52.
IsChain ==
    /\ prog.op = "bind" /\ prog.m.op = "input"
    /\ prog.body.op = "bind" /\ prog.body.m.op = "input"
    /\ prog.body.body.op = "output"
ChainEffects ==
    <<Ev("read", prog.m.s.id, Null), Ev("read", prog.body.m.s.id, Null),
      Ev("write", prog.body.body.k.id, Num(52))>>
C6_ChainWrites52 ==
    \A r \in Runs :
        (/\ IsChain /\ phase = "accepted" /\ Settled(r) /\ snkOk
         /\ srcVal[r][prog.m.s.id] = Num(42)
         /\ srcVal[r][prog.body.m.s.id] = Num(10)) =>
            /\ Effects(r) = ChainEffects
            /\ Vals(Calls(r)) = <<label(prog.m.s.l, Num(42)), label(prog.body.m.s.l, Num(10))>>
            /\ ctl[r] = Fulfilled(Null)
\* The ordering half of C6 alone: continuations are entered only after the
\* computation before them settled, with its result, in program order.
ChainOrderOnly ==
    \A r \in Runs :
        (IsChain /\ phase = "accepted") =>
            /\ \A i \in DOMAIN Effects(r) :
                  /\ Effects(r)[i].e = ChainEffects[i].e
                  /\ Effects(r)[i].id = ChainEffects[i].id
            /\ \A i \in DOMAIN trace[r] :
                  trace[r][i].e = "call" =>
                      /\ i > 1
                      /\ trace[r][i - 1].e = "readSettled"
                      /\ unsafeGetValue(trace[r][i].v) = trace[r][i - 1].v

\* ------------------------------------------------------------------ C7
\* C7: for all levels Lpc, L, Rpc, R over the principals, bind of a
\* computation declared LIO<Lpc, L, Labeled<L, V>> with a continuation into
\* LIO<Rpc, R, W> is accepted exactly when L is a subset of Rpc, and then its
\* pc label is the intersection of Lpc and Rpc and its data label the union
\* of L and R.
IsTypedBind == prog.op = "bind" /\ prog.m.op = "mkLIO" /\ prog.body.op = "mkLIO"
C7_BindLabels ==
    (IsTypedBind /\ Constructed) =>
        /\ phase = "accepted" <=> prog.m.l \subseteq prog.body.pc
        /\ phase = "accepted" =>
              /\ lioType.pc = prog.m.pc \cap prog.body.pc
              /\ lioType.l = prog.m.l \cup prog.body.l
C7_Witness ==
    /\ IsTypedBind /\ phase = "accepted"
    /\ lioType.pc \notin {prog.m.pc, prog.body.pc}
    /\ lioType.l \notin {prog.m.l, prog.body.l}

\* ------------------------------------------------------------------ C8
\* C8: parallelInputAsync over N sources of label L fulfils with an array of
\* N labeled values, element i carrying label L and the value reader i
\* produced, whatever the order in which the reads settle.
IsParallel == prog.op = "parallelInputAsync"
Settlements(r) == SelectSeq(trace[r], LAMBDA ev : ev.e = "readSettled")
InInputOrder(r) ==
    Arr([i \in DOMAIN prog.ss |-> label(prog.ss[i].l, srcVal[r][prog.ss[i].id])])
C8_ParallelResultInInputOrder ==
    \A r \in Runs :
        (IsParallel /\ Settled(r)) =>
            IF \A i \in DOMAIN prog.ss : srcVal[r][prog.ss[i].id] # Failure
            THEN ctl[r] = Fulfilled(InInputOrder(r))
            ELSE ctl[r].st = "rejected"
C8_Witness ==
    /\ IsParallel /\ Len(prog.ss) = MaxSources
    /\ ctl[1].st = "fulfilled"
    /\ Len(Settlements(1)) = MaxSources
    /\ Settlements(1)[1].id = MaxSources
    /\ srcVal[1][1] # srcVal[1][MaxSources]

\* ------------------------------------------------------------------ C9
\* C9: parallelInputAsync starts all N readers, in input order, before any
\* read is awaited; once any read has failed the composite has failed and
\* never exposes an array; the reads still pending stay in flight (each can
\* still settle, none is cancelled) and their results change nothing.
Failed(r) == \E i \in DOMAIN trace[r] :
    trace[r][i].e = "readSettled" /\ trace[r][i].v = Failure
C9_ParallelStartsAllFailsFast ==
    \A r \in Runs :
        (IsParallel /\ trace[r] # <<>>) =>
            /\ Len(trace[r]) >= Len(prog.ss)
            /\ \A i \in DOMAIN prog.ss : trace[r][i] = Ev("read", prog.ss[i].id, Null)
            /\ Failed(r) => ctl[r] \in {Error("IOError"), Rejected("IOError")}
            /\ \A i \in DOMAIN inflight[r] :
                  /\ inflight[r][i].st \in {"pending", "settled"}
                  /\ inflight[r][i].st = "pending" => ENABLED ParallelSettle(r, i)
C9_Witness ==
    /\ IsParallel /\ Len(prog.ss) = MaxSources
    /\ ctl[1].st = "rejected"
    /\ Len(Settlements(1)) = MaxSources
    /\ Settlements(1)[1].v = Failure
    /\ Settlements(1)[MaxSources].v # Failure

\* ------------------------------------------------------------------ C10
\* C10: sequenceAsync([m1..mN]) starts m(i+1) only after m(i) has settled
\* successfully, never has two of them running at once, and fulfils with
\* [r1..rN] in input order.
IsSequence == prog.op = "sequenceAsync"
Count(r, kind) == Len(SelectSeq(trace[r], LAMBDA ev : ev.e = kind))
C10_SequenceOneAtATime ==
    \A r \in Runs :
        IsSequence =>
            /\ Count(r, "read") - Count(r, "readSettled") \in {0, 1}
            /\ \A p \in DOMAIN trace[r] :
                  (trace[r][p].e = "read" /\ trace[r][p].id > 1) =>
                      \E q \in 1..(p - 1) :
                          /\ trace[r][q].e = "readSettled"
                          /\ trace[r][q].id = trace[r][p].id - 1
                          /\ trace[r][q].v # Failure
            /\ (Settled(r) /\ \A i \in DOMAIN prog.ms : srcVal[r][prog.ms[i].s.id] # Failure) =>
                  ctl[r] = Fulfilled(Arr([i \in DOMAIN prog.ms |->
                              label(prog.ms[i].s.l, srcVal[r][prog.ms[i].s.id])]))
C10_Witness ==
    /\ IsSequence /\ Len(prog.ms) = MaxSources
    /\ ctl[1].st = "fulfilled"
    /\ srcVal[1][1] # srcVal[1][MaxSources]

\* ------------------------------------------------------------------ C3
\* C3: noninterference.  For every program of ret, unLabel, bind, input and
\* output, and every sink S it names: two executions in which every source
\* whose label flows to label(S) produces the same outcome end with the same
\* sequence of writer invocations on S (same count, same values).  This
\* covers the direct flow and the flow through a branch; a program the
\* checks reject never runs, so it writes nothing in either execution.
LowEq(k) ==
    \A s \in SourcesOf(prog) :
        canFlowTo(s.l, k.l) => srcVal[1][s.id] = srcVal[2][s.id]
SecretAboveSink ==
    \E o \in OutputsOf(prog, NoEnv), s \in SourcesOf(prog) : ~canFlowTo(s.l, o.k.l)
AcceptedReadsOnlyBelowSink == phase = "accepted" => ~SecretAboveSink

\* ------------------------------------------------------------------ C11
\* C11: conditionalOutputAsync(sink, condition)(data) is accepted only if
\* the condition's label and the data's label both flow to the sink's label;
\* if either does not, it is rejected when constructed, nothing runs and the
\* sink's writer is never invoked, whatever the condition's value.
IsCondOut == prog.op = "conditionalOutputAsync"
CondFlows == getLabel(prog.c.lv) \subseteq prog.k.l
DataFlows == getLabel(prog.e.lv) \subseteq prog.k.l
C11_ConditionalOutputChecked ==
    (IsCondOut /\ Constructed) =>
        /\ phase = "accepted" <=> (CondFlows /\ DataFlows)
        /\ ~(CondFlows /\ DataFlows) =>
              /\ phase = "rejected"
              /\ \A r \in Runs : ctl[r] = Unstarted /\ trace[r] = <<>>
C11_Witness ==
    /\ IsCondOut /\ phase = "rejected"
    /\ DataFlows /\ ~CondFlows
    /\ unsafeGetValue(prog.c.lv) = Bool(TRUE)

\* ------------------------------------------------------------------ C12
\* C12: when both flows hold, running conditionalOutputAsync(sink,
\* condition)(data) invokes the writer exactly once with the raw value of
\* data if the condition is true and never if it is false, and fulfils with
\* null in both cases.
C12_ConditionalOutputWrites ==
    \A r \in Runs :
        (IsCondOut /\ phase = "accepted" /\ Settled(r) /\ snkOk) =>
            /\ ctl[r] = Fulfilled(Null)
            /\ Vals(WritesOf(r, prog.k.id)) =
                  (IF unsafeGetValue(prog.c.lv) = Bool(TRUE)
                   THEN <<unsafeGetValue(prog.e.lv)>> ELSE <<>>)
\* What the code does instead: the writer is never invoked.
CondOutNeverWrites ==
    \A r \in Runs : IsCondOut => WritesOf(r, prog.k.id) = <<>>

\* ------------------------------------------------------------------ C13
\* C13: for every level L and value v, getLabel(label(L, v)) = L and
\* unsafeGetValue(label(L, v)) = v, and labelOf and unsafe_valueOf return the
\* same two results.
C13_LabelRoundTrip ==
    (prog.op = "label" /\ phase = "accepted") =>
        /\ comp.getLabel = prog.l /\ comp.unsafeGetValue = prog.v
        /\ comp.labelOf = prog.l /\ comp.unsafe_valueOf = prog.v
C13_Witness ==
    /\ prog.op = "label" /\ phase = "accepted"
    /\ prog.l = Principals /\ prog.v = Num(42)

\* ------------------------------------------------------------------ C16
\* C16: upLabel(L')(lv) is accepted exactly when the label of lv flows to
\* L'; it then returns a new labeled value with label L' and the same value,
\* and lv keeps its own label and value; otherwise nothing is constructed.
C16_UpLabel ==
    (prog.op = "upLabel" /\ Constructed) =>
        /\ phase = "accepted" <=> getLabel(prog.lv) \subseteq prog.l_
        /\ phase = "accepted" =>
              /\ getLabel(comp.res) = prog.l_
              /\ unsafeGetValue(comp.res) = unsafeGetValue(prog.lv)
              /\ comp.lv = prog.lv
        /\ phase # "accepted" => phase = "rejected" /\ comp = ret(Undefined)
C16_Witness ==
    /\ prog.op = "upLabel" /\ phase = "accepted"
    /\ getLabel(prog.lv) # prog.l_
    /\ getLabel(comp.lv) = getLabel(prog.lv)

\* ------------------------------------------------------------------ C17
\* C17: over all levels, canFlowTo is reflexive, transitive and
\* antisymmetric, and every level A satisfies canFlowTo(Bot, A) and
\* canFlowTo(A, Top).
C17_PartialOrderWithBounds ==
    (prog.op = "lattice" /\ phase = "accepted") =>
        LET A == prog.a  B == prog.b  C == prog.c
        IN  /\ comp.leq = (A \subseteq B)
            /\ canFlowTo(A, A)
            /\ (canFlowTo(A, B) /\ canFlowTo(B, C)) => canFlowTo(A, C)
            /\ (canFlowTo(A, B) /\ canFlowTo(B, A)) => A = B
            /\ canFlowTo(Bot, A) /\ canFlowTo(A, Top)
            /\ Bot = {} /\ Top = Principals
C17_Witness ==
    /\ prog.op = "lattice" /\ phase = "accepted"
    /\ prog.a # prog.b /\ prog.b # prog.c
    /\ comp.leq /\ canFlowTo(prog.b, prog.c)

\* ------------------------------------------------------------------ C18
\* C18: over all levels, join and meet are commutative, associative and
\* idempotent; join(A, B) is the least level both A and B flow to, and
\* meet(A, B) the greatest level that flows to both.
C18_JoinMeetLaws ==
    (prog.op = "lattice" /\ phase = "accepted") =>
        LET A == prog.a  B == prog.b  C == prog.c
        IN  /\ comp.join = LUB(B, A) /\ comp.meet = GLB(B, A)
            /\ LUB(LUB(A, B), C) = LUB(A, LUB(B, C))
            /\ GLB(GLB(A, B), C) = GLB(A, GLB(B, C))
            /\ LUB(A, A) = A /\ GLB(A, A) = A
            /\ canFlowTo(A, comp.join) /\ canFlowTo(B, comp.join)
            /\ \A U \in Level :
                  (canFlowTo(A, U) /\ canFlowTo(B, U)) => canFlowTo(comp.join, U)
            /\ canFlowTo(comp.meet, A) /\ canFlowTo(comp.meet, B)
            /\ \A D \in Level :
                  (canFlowTo(D, A) /\ canFlowTo(D, B)) => canFlowTo(D, comp.meet)
C18_Witness ==
    /\ prog.op = "lattice" /\ phase = "accepted"
    /\ comp.join \notin {prog.a, prog.b}
    /\ comp.meet \notin {prog.a, prog.b}

\* ------------------------------------------------------------------ C14
\* C14: for m that settles with the labeled value lv = (L, v), running
\* toLabeled(m) runs m exactly once and fulfils with a box whose label is L
\* and whose content is lv unchanged; toLabeled(m) has m's pc label and data
\* label Bot.
IsToLabeled == prog.op = "toLabeled"
C14_ToLabeledBoxes ==
    /\ (IsToLabeled /\ phase = "accepted") =>
          lioType.pc = TypeOf(prog.m, NoEnv).pc /\ lioType.l = {}
    /\ \A r \in Runs :
          (IsToLabeled /\ Settled(r) /\ srcVal[r][prog.m.s.id] # Failure) =>
              /\ Len(ReadsOf(r, prog.m.s.id)) = 1
              /\ ctl[r].st = "fulfilled"
              /\ getLabel(ctl[r].v) = prog.m.s.l
              /\ unsafeGetValue(ctl[r].v) = label(prog.m.s.l, srcVal[r][prog.m.s.id])
\* What does hold: the labels of the type, m run once, and when a box is
\* produced its content is lv; the box's label is never L.
ToLabeledBoxLabelLost ==
    /\ (IsToLabeled /\ phase = "accepted") =>
          lioType.pc = TypeOf(prog.m, NoEnv).pc /\ lioType.l = {}
    /\ \A r \in Runs :
          (IsToLabeled /\ Settled(r) /\ srcVal[r][prog.m.s.id] # Failure) =>
              /\ Len(ReadsOf(r, prog.m.s.id)) = 1
              /\ IF build = "native"
                 THEN ctl[r] = Rejected("TypeError")
                 ELSE /\ ctl[r].st = "fulfilled"
                      /\ getLabel(ctl[r].v) = UndefinedLevel
                      /\ unsafeGetValue(ctl[r].v) = label(prog.m.s.l, srcVal[r][prog.m.s.id])

\* ------------------------------------------------------------------ C15
\* C15: for every labeled value lv with label L, unLabel(lv) has pc label L
\* and data label Bot; running it invokes no reader or writer and fulfils
\* with lv itself, still labeled L with its value unchanged.  As a
\* continuation of a bind it hands the same labeled value on.
IsUnLabel == prog.op = "unLabel"
IsUnLabelChain == prog.op = "bind" /\ prog.m.op = "bind" /\ prog.m.body.op = "unLabel"
C15_UnLabelKeepsLabeledValue ==
    /\ (IsUnLabel /\ Constructed) =>
          /\ phase = "accepted"
          /\ lioType.pc = getLabel(prog.e.lv) /\ lioType.l = {}
          /\ lioType.v = LabeledT(getLabel(prog.e.lv))
    /\ \A r \in Runs :
          /\ IsUnLabel =>
                /\ trace[r] = <<>>
                /\ Settled(r) => ctl[r] = Fulfilled(prog.e.lv)
          /\ (IsUnLabelChain /\ Len(Calls(r)) >= 2) =>
                /\ Calls(r)[2].v = Calls(r)[1].v
                /\ Len(ReadsOf(r, prog.m.m.s.id)) = 1
C15_Witness ==
    /\ IsUnLabel /\ getLabel(prog.e.lv) = Principals
    /\ ctl[1] = Fulfilled(label(Principals, Num(42)))

\* ------------------------------------------------------------------ C19
\* C19: when a reader or writer fails while a composed computation runs,
\* the computation fails with that failure: nothing of the chain happens
\* after the failure (no continuation is invoked, no later reader or writer
\* is invoked), the run settles rejected with the I/O failure, and no reader
\* or writer is invoked a second time.
IOFailed(ev) == ev.e \in {"readSettled", "writeSettled"} /\ ev.v = Failure
C19_FailurePropagates ==
    \A r \in Runs :
        ~IsParallel =>
            /\ \A p \in DOMAIN trace[r] :
                  IOFailed(trace[r][p]) =>
                      /\ p = Len(trace[r])
                      /\ ctl[r] \in {Error("IOError"), Rejected("IOError")}
            /\ \A id \in SrcIds :
                  Len(ReadsOf(r, id)) <= 1 /\ Len(WritesOf(r, id)) <= 1
C19_Witness ==
    /\ IsChain /\ srcVal[1][1] # Failure /\ srcVal[1][2] = Failure
    /\ ctl[1] = Rejected("IOError")
    /\ Len(Calls(1)) = 1
    /\ WritesOf(1, 1) = <<>>

\* ------------------------------------------------------------------ C20
\* C20: a computation is single-shot: running the same computation object a
\* second time does not invoke its readers or writers again, so over both
\* runs of one object every reader and every writer is invoked at most once.
C20_SingleShot ==
    \A id \in SrcIds :
        /\ Len(ReadsOf(1, id)) + Len(ReadsOf(2, id)) <= 1
        /\ Len(WritesOf(1, id)) + Len(WritesOf(2, id)) <= 1
\* What the code does: each run of the object starts from its thunk again.
SecondRunReadsAgain ==
    (Settled(2) /\ SourcesOf(prog) # {}) =>
        \E s \in SourcesOf(prog) : Len(ReadsOf(1, s.id)) = 1 /\ Len(ReadsOf(2, s.id)) = 1

\* ------------------------------------------------------------------ C21
\* C21: there is no cancellation.  Once unsafe_runLIO has started a
\* computation, the run eventually settles (fulfilled or rejected), given
\* that every reader and writer it invokes settles; and no step takes a
\* started run back or drops a started effect: a run that awaits a reader or
\* a writer leaves that state only by that reader's or writer's settlement,
\* a settled run stays settled, and the effects recorded are never removed.
Started(r) == ctl[r] # Unstarted
NoAbort(r) ==
    /\ Started(r) => ctl'[r] # Unstarted
    /\ Settled(r) => ctl'[r] = ctl[r]
    /\ Len(trace'[r]) >= Len(trace[r])
    /\ SubSeq(trace'[r], 1, Len(trace[r])) = trace[r]
    /\ (ctl[r].st = "awaitRead" /\ ctl'[r] # ctl[r]) =>
          trace'[r] = Append(trace[r], Ev("readSettled", ctl[r].s.id, srcVal[r][ctl[r].s.id]))
    /\ (ctl[r].st = "awaitWrite" /\ ctl'[r] # ctl[r]) =>
          /\ Len(trace'[r]) = Len(trace[r]) + 1
          /\ trace'[r][Len(trace'[r])].e = "writeSettled"
    /\ \A i \in DOMAIN inflight[r] :
          inflight[r][i].st = "pending" =>
              /\ i \in DOMAIN inflight'[r]
              /\ \/ inflight'[r][i] = inflight[r][i]
                 \/ /\ inflight'[r][i].st = "settled"
                    /\ trace'[r][Len(trace'[r])].e = "readSettled"
C21_RunsToSettlement ==
    /\ \A r \in Runs : Started(r) ~> Settled(r)
    /\ [][\A r \in Runs : NoAbort(r)]_vars
C21_Witness ==
    /\ IsChain /\ Settled(1) /\ snkOk
    /\ Len(Calls(1)) = 2
    /\ Len(Effects(1)) >= 2

\* ------------------------------------------------------------------ C22
\* C22: labeled values are immutable.  After any sequence of getLabel,
\* unsafeGetValue, upLabel, unLabel, toLabeled, bind and output applied to
\* the labeled value created by label(L, v) (and to the labeled values those
\* operations returned), getLabel of it still returns L and unsafeGetValue
\* still returns v; and no step changes an object that exists.
OriginalIntact ==
    (prog.op = "object" /\ phase = "accepted") =>
        /\ getLabelObj(comp.o.h, Ref(1)).res.l = prog.l
        /\ unsafeGetValueObj(comp.o.h, Ref(1)).res.v = prog.v
ObjectsKept ==
    (prog.op = "object" /\ phase = "accepted") =>
        /\ Len(comp'.o.h) >= Len(comp.o.h)
        /\ \A i \in DOMAIN comp.o.h : comp'.o.h[i] = comp.o.h[i]
C22_LabeledImmutable == [][OriginalIntact /\ OriginalIntact' /\ ObjectsKept]_vars
C22_Witness ==
    /\ prog.op = "object" /\ phase = "accepted" /\ comp.n = MaxOps
    /\ \E i \in DOMAIN comp.o.h : comp.o.h[i].privateLabel \in Level \ {prog.l}
    /\ \E i \in DOMAIN comp.o.h : comp.o.h[i].privateValue = Ref(1)
    /\ getLabelObj(comp.o.h, Ref(1)).res.l = prog.l

\* ------------------------------------------------------------------ C23
\* C23: computations are deferred.  Constructing a computation (input,
\* output, bind, unLabel, ret, toLabeled, sequenceAsync, parallelInputAsync,
\* conditionalOutputAsync) invokes no reader and no writer: as long as the
\* run has not been started by unsafe_runLIO nothing has been invoked, and a
\* program that was rejected or never run has invoked nothing at all.
C23_Deferred ==
    \A r \in Runs :
        /\ ctl[r] = Unstarted => trace[r] = <<>>
        /\ Effects(r) # <<>> => phase = "accepted" /\ ctl[r] # Unstarted
C23_Witness ==
    /\ phase = "accepted" /\ ctl[1] = Unstarted
    /\ comp.op \in {"bind", "sequenceAsync", "toLabeled"}
    /\ SourcesOf(prog) # {}

\* ------------------------------------------------------------------ C24
\* C24: labels are erased from execution.  upData(l', m) is accepted only
\* when m's data label flows to l', downPC(pc', m) only when pc' flows to
\* m's pc label; the relabelled computation is m unchanged, so running it
\* invokes the same readers and writers in the same order with the same
\* values and settles with the same result as running m.
IsRelabel == prog.op \in {"upData", "downPC"}
RelabelFlows ==
    IF prog.op = "upData"
    THEN TypeOf(prog.m, NoEnv).l \subseteq prog.l
    ELSE prog.l \subseteq TypeOf(prog.m, NoEnv).pc
C24_RelabelErased ==
    (IsRelabel /\ Constructed) =>
        /\ phase = "accepted" => RelabelFlows
        /\ (TypeOf(prog.m, NoEnv).ok /\ ~RelabelFlows) =>
              phase = "rejected" /\ \A r \in Runs : trace[r] = <<>>
        /\ phase = "accepted" =>
              /\ lioType.pc = (IF prog.op = "downPC" THEN prog.l ELSE TypeOf(prog.m, NoEnv).pc)
              /\ lioType.l = (IF prog.op = "upData" THEN prog.l ELSE TypeOf(prog.m, NoEnv).l)
        /\ (Settled(1) /\ Settled(2)) => trace[1] = trace[2] /\ ctl[1] = ctl[2]
C24_Witness ==
    /\ prog.op = "upData" /\ prog.m.op = "bind" /\ phase = "accepted"
    /\ prog.l # TypeOf(prog.m, NoEnv).l
    /\ Settled(1) /\ Settled(2)
    /\ Len(Effects(1)) = 2 /\ Len(Effects(2)) = 2

\* ------------------------------------------------------------------ C25
\* C25: in every accepted composition, whenever the writer of a sink S is
\* invoked inside the continuation of a bind(m, f), at any nesting depth,
\* the label of the labeled value m delivered to f flows to the label of S;
\* also when the continuation writes a freshly labelled value and when the
\* data of two differently labelled sources is combined.
\* (In the programs checked every continuation called before a write
\* encloses that write, or hands its value to one that does.)
DeliveredBefore(r, p) ==
    {getLabel(trace[r][q].v) : q \in {q \in 1..(p - 1) : trace[r][q].e = "call"}}
BothInProgress == ctl[3].st = "awaitRead" /\ Len(trace[4]) >= 3 /\ ~Settled(4)
IsLeftIdentity == prog.op = "law" /\ prog.law = "leftIdentity"
CallOf(lv) == Ev("call", 0, lv)
C27_LeftIdentity ==
    (IsLeftIdentity /\ Settled(1) /\ Settled(2)) =>
        /\ trace[1] = <<CallOf(prog.env["x"])>> \o trace[2]
        /\ Effects(1) = Effects(2)
        /\ ctl[1] = ctl[2]
C27_Witness ==
    /\ IsLeftIdentity /\ Settled(1) /\ Settled(2)
    /\ prog.rhs.op = "bind"
    /\ ctl[2] = Fulfilled(Null)
    /\ Len(Effects(2)) = 2

\* ------------------------------------------------------------------ C28
\* C28: associativity.  Running bind(bind(m, f), g) and running
\* bind(m, x => bind(f(x), g)) produce the same sequence of reader and writer
\* invocations with the same values and settle with the same result or the
\* same failure.
IsAssociativity == prog.op = "law" /\ prog.law = "associativity"
C28_Associativity ==
    /\ IsAssociativity => TypeOf(prog.lhs, NoEnv).ok = TypeOf(prog.rhs, NoEnv).ok
    /\ (IsAssociativity /\ Settled(1) /\ Settled(2)) =>
          /\ Effects(1) = Effects(2)
          /\ trace[1] = trace[2]
          /\ ctl[1] = ctl[2]
C28_Witness ==
    /\ IsAssociativity /\ Settled(1) /\ Settled(2)
    /\ prog.lhs.m.body.op = "input"
    /\ Len(Effects(1)) = 3
    /\ Len(Calls(2)) = 2

\* ------------------------------------------------------------------ C29
\* C29: parallelInputAsync fails as soon as the first of its reads fails,
\* without waiting for the reads still in flight; on success it settles only
\* after all N reads have settled; with an empty source list it fulfils with
\* an empty array and invokes no reader.
Pending(r) == {i \in DOMAIN inflight[r] : inflight[r][i].st = "pending"}
C29_ParallelSettlement ==
    \A r \in Runs :
        IsParallel =>
            /\ Failed(r) => ctl[r] \in {Error("IOError"), Rejected("IOError")}
            /\ (ctl[r] = Error("IOError") /\ Pending(r) # {}) => ENABLED Settle(r)
            /\ ctl[r].st \in {"value", "fulfilled"} =>
                  /\ Len(Settlements(r)) = Len(prog.ss)
                  /\ Pending(r) = {}
                  /\ ~Failed(r)
            /\ ctl[r].st = "awaitAll" => Pending(r) # {}
            /\ prog.ss = <<>> =>
                  /\ trace[r] = <<>>
                  /\ ctl[r] \in {Unstarted, Running(comp), Value(Arr(<<>>)), Fulfilled(Arr(<<>>))}
\* Rejected while two reads are still in flight.
C29_Witness ==
    /\ IsParallel /\ Len(prog.ss) = MaxSources
    /\ ctl[1] = Rejected("IOError")
    /\ Len(Settlements(1)) = 1
    /\ Cardinality(Pending(1)) = MaxSources - 1
\* The empty list, settled.
EmptyParallelSettled == IsParallel /\ prog.ss = <<>> /\ ctl[1] = Fulfilled(Arr(<<>>))

\* ------------------------------------------------------------------ C30
\* C30: if the k-th computation of sequenceAsync([m1..mN]) fails, the
\* composite fails with that failure, m(k+1)..mN are never started, the
\* results of m1..m(k-1) are not returned, and the effects m1..m(k-1)
\* already performed stay performed.
FirstFailing(r) ==
    {k \in DOMAIN prog.ms :
        /\ srcVal[r][prog.ms[k].s.id] = Failure
        /\ \A j \in 1..(k - 1) : srcVal[r][prog.ms[j].s.id] # Failure}
C30_SequenceStopsAtFailure ==
    \A r \in Runs : IsSequence => \A k \in FirstFailing(r) :
        /\ \A j \in DOMAIN prog.ms : j > k =>
              /\ ReadsOf(r, prog.ms[j].s.id) = <<>>
              /\ Ev("seqRun", j, Null) \notin {trace[r][p] : p \in DOMAIN trace[r]}
        /\ ctl[r].st # "fulfilled"
        /\ ctl[r].st = "value" => stack[r] # <<>>
        /\ Settled(r) =>
              /\ ctl[r] = Rejected("IOError")
              /\ \A j \in 1..k : Len(ReadsOf(r, prog.ms[j].s.id)) = 1
              /\ \A j \in 1..(k - 1) :
                    Ev("seqGot", j, label(prog.ms[j].s.l, srcVal[r][prog.ms[j].s.id]))
                        \in {trace[r][p] : p \in DOMAIN trace[r]}
C30_Witness ==
    /\ IsSequence /\ Len(prog.ms) = MaxSources
    /\ FirstFailing(1) = {2}
    /\ ctl[1] = Rejected("IOError")
    /\ Len(ReadsOf(1, 1)) = 1 /\ ReadsOf(1, 3) = <<>>

====
